---- MODULE Spec2Model ----
(***************************************************************************)
(* A model of the terminal game engine: the DisplayController (cell        *)
(* buffer, centring offset, drawing primitives, frame output) and the     *)
(* App game loop (run / reset / shut_down).                                *)
(*                                                                         *)
(* Points are pairs <<x, y>>: p[1] is x (width, columns), p[2] is y        *)
(* (height, rows).  The Map is indexed [row][column], both from 0.         *)
(***************************************************************************)
EXTENDS Integers, Sequences, FiniteSets, TLC

\* ------------------------------------------------------------------ bounds
\* Terminal sizes range over 1..MaxTerm columns and rows.
MaxTerm == 3
\* Requested play-area dimensions range over 1..MaxDim on each axis.
MaxDim == 3
\* draw_line lengths range over 0..MaxLen.
MaxLen == 3
\* Number of calls of any kind made on a constructed controller, after which
\* one more reset or print_display is still explored.
MaxSteps == 1
\* Number of loop iterations of App::run that are explored.
MaxFrames == 2
MaxInputs == 4
MaxShipWidth == 4

\* ---------------------------------------------------------------- elements
NoElem == "None"
\* Element::new('x', Color::Blue, Color::Green), the border drawn by new
BorderElement == "x"
\* BORDER_ELEMENT, Element::new('x', Color::Black, Color::Black), the element
\* of the Borders entity
BORDER_ELEMENT == "x_black"
\* Element::default(), what a None cell is printed as
DefaultElement == "default"
\* elements a caller passes to the drawing primitives
UserElements == {"o"}

VARIABLES
    term_size,       \* what size() returns: <<columns, rows>>
    req_dimensions,  \* the dimensions argument of DisplayController::new
    status,          \* "unconstructed", "ready", "failed"
    controller,      \* the DisplayController: dimensions, offset, screen_size, display
    terminal,        \* the output target: raw mode, alternate screen, cursor, frame
    last,            \* the last call made on the controller, its arguments and result
    steps,           \* number of calls made on the constructed controller
    game_state,      \* GameState: running, keyboard_event
    pc,              \* position of App::run
    run_result,      \* what run() returned or raised: "none", "Ok", an error, "panic"
    loop_outcome,    \* what the closure under catch_unwind ended with
    iter,            \* the loop iteration of run()
    frame_log,       \* the steps taken so far in the current iteration
    polled_event,    \* what poll / read delivered in the current iteration
    seen_event,      \* the keyboard_event the closure found in the current iteration
    close_calls,     \* number of calls of DisplayController::close
    player,          \* the Player: drawable (DrawableState) and bullets (Spawnable)
    pcall            \* the calls made on the Player so far and the state before the last

vars == <<term_size, req_dimensions, status, controller, terminal, last, steps,
          game_state, pc, run_result, loop_outcome, iter, frame_log,
          polled_event, seen_event, close_calls, player, pcall>>

entVars == <<player, pcall>>

loopVars == <<polled_event, seen_event, close_calls>>

appVars == <<game_state, pc, run_result, loop_outcome, iter, frame_log, loopVars,
             entVars>>

\* ------------------------------------------------------------------ Point
addX(p, n) == <<p[1] + n, p[2]>>
addY(p, n) == <<p[1], p[2] + n>>
PointAdd(a, b) == <<a[1] + b[1], a[2] + b[2]>>

\* One axis of (screen_size - dimensions) / 2 on u32 with the subtraction
\* wrapping (a build without overflow checks): for a < b the difference is
\* 2^32 + (a - b), and half of it is 2^31 + floor((a - b) / 2), written so
\* that no intermediate value leaves the 32-bit range.
WrappingSubDiv2(a, b) ==
    IF a >= b THEN (a - b) \div 2
    ELSE 2147483647 + (((a - b) \div 2) + 1)

\* ------------------------------------------------------------------- Map
MapNew(size) ==
    [r \in 0..(size[2] - 1) |-> [c \in 0..(size[1] - 1) |-> NoElem]]

MapReset(map) ==
    [r \in DOMAIN map |-> [c \in DOMAIN map[r] |-> NoElem]]

NoController ==
    [dimensions |-> <<0, 0>>, offset |-> <<0, 0>>, screen_size |-> <<0, 0>>,
     display |-> MapNew(<<0, 0>>), default_element |-> DefaultElement]

\* ------------------------------------------------------- drawing primitives
\* A call returns [res, self]: res is "Ok", "PositionOutOfRange" or "panic"
\* (an index out of the bounds of a row), self the controller afterwards.

\* Mutation of draw_item's write: the cell is addressed without the offset.
draw_item_no_offset(self, element, position) ==
    IF position[2] \notin DOMAIN self.display
    THEN [res |-> "PositionOutOfRange", self |-> self]
    ELSE IF position[1] \notin DOMAIN self.display[position[2]]
    THEN [res |-> "panic", self |-> self]
    ELSE [res |-> "Ok",
          self |-> [self EXCEPT !.display[position[2]][position[1]] = element]]

\* draw_item once the range check has passed: translate by the offset, fetch
\* the row with get_mut, index the column, store Some(element)
draw_item_unchecked(self, element, position) ==
    LET updated_positions == PointAdd(self.offset, position) IN
    IF updated_positions[2] \notin DOMAIN self.display
    THEN [res |-> "PositionOutOfRange", self |-> self]
    ELSE IF updated_positions[1] \notin DOMAIN self.display[updated_positions[2]]
    THEN [res |-> "panic", self |-> self]
    ELSE [res |-> "Ok",
          self |-> [self EXCEPT !.display[updated_positions[2]][updated_positions[1]] = element]]

\* Mutation of draw_item: the range check is made against the buffer size.
draw_item_buffer_check(self, element, position) ==
    IF position[1] >= self.screen_size[1] \/ position[2] >= self.screen_size[2]
    THEN [res |-> "PositionOutOfRange", self |-> self]
    ELSE draw_item_unchecked(self, element, position)

\* Mutation of draw_item: no range check against the play area.
draw_item_no_range_check(self, element, position) ==
    draw_item_unchecked(self, element, position)

\* Mutation of draw_item: the cell is written before the range check fails.
draw_item_writes_first(self, element, position) ==
    LET r == draw_item_unchecked(self, element, position) IN
    IF position[1] >= self.dimensions[1] \/ position[2] >= self.dimensions[2]
    THEN [res |-> "PositionOutOfRange", self |-> r.self]
    ELSE r

draw_item(self, element, position) ==
    IF position[1] >= self.dimensions[1] \/ position[2] >= self.dimensions[2]
    THEN [res |-> "PositionOutOfRange", self |-> self]
    ELSE draw_item_unchecked(self, element, position)

RECURSIVE draw_line_from(_, _, _, _, _, _)
draw_line_from(self, element, len, start_position, direction, position_change) ==
    IF position_change >= len THEN [res |-> "Ok", self |-> self]
    ELSE LET new_position == IF direction = "Horizontal"
                             THEN addX(start_position, position_change)
                             ELSE addY(start_position, position_change)
             r == draw_item(self, element, new_position)
         IN IF r.res # "Ok" THEN r
            ELSE draw_line_from(r.self, element, len, start_position, direction,
                                position_change + 1)

\* Mutation of draw_line: a failing line is rolled back.
draw_line_transactional(self, element, len, start_position, direction) ==
    LET r == draw_line_from(self, element, len, start_position, direction, 0) IN
    IF r.res # "Ok" THEN [res |-> r.res, self |-> self] ELSE r

draw_line(self, element, len, start_position, direction) ==
    draw_line_from(self, element, len, start_position, direction, 0)

draw_rect(self, start_position, dimensions, element) ==
    LET top == draw_line(self, element, dimensions[1], start_position, "Horizontal") IN
    IF top.res # "Ok" THEN top ELSE
    LET bottom == draw_line(top.self, element, dimensions[1],
                            addY(start_position, dimensions[2] - 1), "Horizontal") IN
    IF bottom.res # "Ok" THEN bottom ELSE
    LET left == draw_line(bottom.self, element, dimensions[2], start_position, "Vertical") IN
    IF left.res # "Ok" THEN left ELSE
    draw_line(left.self, element, dimensions[2],
              addX(start_position, dimensions[1] - 1), "Vertical")

draw_borders(self) == draw_rect(self, <<0, 0>>, self.dimensions, BorderElement)

\* ------------------------------------------------------------ frame output
NoFault == -1

\* the cells of the Map in the order the nested loops of print_display visit
\* them: row by row, each row from its first column
RowMajor(map) ==
    LET rows == Cardinality(DOMAIN map)
        columns == IF rows = 0 THEN 0 ELSE Cardinality(DOMAIN map[0])
    IN [i \in 1..(rows * columns) |-> map[(i - 1) \div columns][(i - 1) % columns]]

\* the points at which a queued write of print_element is made to fail: the
\* first cell, the last cell, or none
IoFaults(size) == {NoFault, 0, size[1] * size[2] - 1}

\* reset_cursor: the cursor goes home, the frame starts again
reset_cursor(term) == [term EXCEPT !.frame = <<>>]

\* Mutation of print_display: a None cell is printed as it is.
print_element_raw(self, cell) == cell

\* what print_display queues for one cell: the element of a Some cell, the
\* controller's default element for a None cell
print_element(self, cell) == IF cell = NoElem THEN self.default_element ELSE cell

\* print_display with the write of cell number io (from 0) failing, or none:
\* [res, terminal]
print_display(self, term, io) ==
    LET cells == RowMajor(self.display)
        queued == [i \in 1..Len(cells) |-> print_element(self, cells[i])]
        t0 == reset_cursor(term)
    IN IF io = NoFault \/ io >= Len(cells)
       THEN [res |-> "Ok", terminal |-> [t0 EXCEPT !.frame = queued]]
       ELSE [res |-> "TerminalError",
             terminal |-> [t0 EXCEPT !.frame = SubSeq(queued, 1, io)]]

\* setup: EnterAlternateScreen, Hide
setup(term) == [term EXCEPT !.alternate = TRUE, !.cursor_hidden = TRUE]

\* Mutation of close: raw mode is toggled instead of disabled.
close_toggles_raw(term) ==
    [term EXCEPT !.raw = ~term.raw, !.alternate = FALSE, !.cursor_hidden = FALSE]

\* close: disable_raw_mode, LeaveAlternateScreen, Show
close(term) == [term EXCEPT !.raw = FALSE, !.alternate = FALSE, !.cursor_hidden = FALSE]

\* ------------------------------------------------- DisplayController::new
\* the size check of new: TRUE when new returns DisplayTooSmallForDimensions
TooSmall(dimensions, columns, rows) ==
    dimensions[1] > rows \/ dimensions[2] > columns

\* Mutation of the offset: the difference is not halved.
OffsetOfNoHalving(screen_size, dimensions) ==
    <<IF screen_size[1] >= dimensions[1] THEN screen_size[1] - dimensions[1]
      ELSE WrappingSubDiv2(screen_size[1], dimensions[1]),
      IF screen_size[2] >= dimensions[2] THEN screen_size[2] - dimensions[2]
      ELSE WrappingSubDiv2(screen_size[2], dimensions[2])>>

\* offset: (screen_size - dimensions) / Point::new(2, 2)
OffsetOf(screen_size, dimensions) ==
    <<WrappingSubDiv2(screen_size[1], dimensions[1]),
      WrappingSubDiv2(screen_size[2], dimensions[2])>>

\* new(dimensions) on a terminal of size <<columns, rows>>.  overflow_checks
\* is the build: with it the u32 subtraction of the offset panics on
\* underflow, without it the subtraction wraps.  io is the fault of the
\* first print_display.  [res, self, terminal, borders]: borders is the
\* result of draw_borders, "not_called" when new left before it.
new(dimensions, size, term, overflow_checks, io) ==
    LET columns == size[1]
        rows == size[2]
    IN
    IF TooSmall(dimensions, columns, rows)
    THEN [res |-> "DisplayTooSmallForDimensions", self |-> NoController,
          terminal |-> term, borders |-> "not_called"]
    ELSE IF overflow_checks /\ (columns < dimensions[1] \/ rows < dimensions[2])
    THEN [res |-> "panic", self |-> NoController, terminal |-> term,
          borders |-> "not_called"]
    ELSE
    LET screen_size == <<columns, rows>>
        made == [display |-> MapNew(screen_size),
                 dimensions |-> dimensions,
                 default_element |-> DefaultElement,
                 screen_size |-> screen_size,
                 offset |-> OffsetOf(screen_size, dimensions)]
        t1 == setup(term)
        b == draw_borders(made)
    IN
    IF b.res # "Ok"
    THEN [res |-> b.res, self |-> NoController, terminal |-> t1, borders |-> b.res]
    ELSE
    LET p == print_display(b.self, t1, io) IN
    IF p.res # "Ok"
    THEN [res |-> p.res, self |-> NoController, terminal |-> p.terminal, borders |-> "Ok"]
    ELSE [res |-> "Ok", self |-> b.self, terminal |-> p.terminal, borders |-> "Ok"]

\* ---------------------------------------------------------------- inputs
TermSizes == (1..MaxTerm) \X (1..MaxTerm)
Dimensions == (1..MaxDim) \X (1..MaxDim)
Directions == {"Horizontal", "Vertical"}
\* play-area-local positions offered to the primitives: every position of
\* the play area and the first ones beyond it on each axis
Positions == (0..controller.dimensions[1]) \X (0..controller.dimensions[2])
\* starts offered to draw_line: the corners of the play area and the first
\* positions beyond it
LineStarts ==
    {p \in Positions : /\ p[1] \in {0, controller.dimensions[1] - 1, controller.dimensions[1]}
                       /\ p[2] \in {0, controller.dimensions[2] - 1, controller.dimensions[2]}}
\* starts offered to draw_rect
RectStarts == {<<0, 0>>, <<1, 1>>}
\* key events read() delivers
KeyEvents == {"Esc", "Enter", "Up"}

\* no drawable was handed to the call
NoDrawable == [location |-> <<0, 0>>, layout |-> <<>>]

NoCall ==
    [op |-> "none", element |-> NoElem, position |-> <<0, 0>>, len |-> 0,
     direction |-> "Horizontal", dimensions |-> <<0, 0>>, io |-> NoFault,
     result |-> "none", borders |-> "not_called", before |-> NoController,
     drawable |-> NoDrawable, step |-> "none"]

NoGameState == [running |-> FALSE, keyboard_event |-> "None"]

\* no Player has been constructed
NoPlayer ==
    [drawable |-> [layout |-> <<0, 0>>, location |-> <<0, 0>>, velocity |-> <<0, 0>>,
                   kind |-> "None"],
     bullets |-> <<>>]

NoPlayerCall == [history |-> <<>>, event |-> "None", before |-> NoPlayer, spawned |-> <<>>]

\* ------------------------------------------------- the controller's actions
InitController ==
    /\ term_size \in TermSizes
    /\ req_dimensions \in Dimensions
    /\ status = "unconstructed"
    /\ controller = NoController
    /\ terminal = [raw |-> TRUE, alternate |-> FALSE, cursor_hidden |-> FALSE,
                   frame |-> <<>>]
    /\ last = NoCall
    /\ steps = 0

Init ==
    /\ InitController
    /\ game_state = NoGameState
    /\ pc = "idle"
    /\ run_result = "none"
    /\ loop_outcome = "none"
    /\ iter = 0
    /\ frame_log = <<>>
    /\ polled_event = "None"
    /\ seen_event = "None"
    /\ close_calls = 0
    /\ player = NoPlayer
    /\ pcall = NoPlayerCall

New ==
    /\ status = "unconstructed"
    /\ \E overflow_checks \in BOOLEAN, io \in IoFaults(term_size) :
         LET r == new(req_dimensions, term_size, terminal, overflow_checks, io) IN
         /\ controller' = r.self
         /\ terminal' = r.terminal
         /\ status' = IF r.res = "Ok" THEN "ready" ELSE "failed"
         /\ last' = [NoCall EXCEPT !.op = "new", !.dimensions = req_dimensions,
                                   !.io = io, !.result = r.res, !.borders = r.borders]
    /\ UNCHANGED <<term_size, req_dimensions, steps, appVars>>

DrawItem ==
    /\ status = "ready"
    /\ steps < MaxSteps
    /\ \E element \in UserElements, position \in Positions :
         LET r == draw_item(controller, element, position) IN
         /\ controller' = r.self
         /\ last' = [NoCall EXCEPT !.op = "draw_item", !.element = element,
                                   !.position = position, !.result = r.res,
                                   !.before = controller]
    /\ steps' = steps + 1
    /\ UNCHANGED <<term_size, req_dimensions, status, terminal, appVars>>

DrawLine ==
    /\ status = "ready"
    /\ steps < MaxSteps
    /\ \E element \in UserElements, len \in 0..MaxLen, start_position \in LineStarts,
          direction \in Directions :
         LET r == draw_line(controller, element, len, start_position, direction) IN
         /\ controller' = r.self
         /\ last' = [NoCall EXCEPT !.op = "draw_line", !.element = element,
                                   !.position = start_position, !.len = len,
                                   !.direction = direction, !.result = r.res,
                                   !.before = controller]
    /\ steps' = steps + 1
    /\ UNCHANGED <<term_size, req_dimensions, status, terminal, appVars>>

DrawRect ==
    /\ status = "ready"
    /\ steps < MaxSteps
    /\ \E element \in UserElements, start_position \in RectStarts,
          dimensions \in Dimensions :
         LET r == draw_rect(controller, start_position, dimensions, element) IN
         /\ controller' = r.self
         /\ last' = [NoCall EXCEPT !.op = "draw_rect", !.element = element,
                                   !.position = start_position,
                                   !.dimensions = dimensions, !.result = r.res,
                                   !.borders = r.res, !.before = controller]
    /\ steps' = steps + 1
    /\ UNCHANGED <<term_size, req_dimensions, status, terminal, appVars>>

\* App::reset: keyboard_event = None, display.reset()
reset(self) == [self EXCEPT !.display = MapReset(self.display)]

Reset ==
    /\ status = "ready"
    /\ steps <= MaxSteps
    /\ controller' = reset(controller)
    /\ game_state' = [game_state EXCEPT !.keyboard_event = "None"]
    /\ last' = [NoCall EXCEPT !.op = "reset", !.result = "Ok", !.before = controller]
    /\ steps' = steps + 1
    /\ UNCHANGED <<term_size, req_dimensions, status, terminal, pc, run_result,
                   loop_outcome, iter, frame_log, loopVars, entVars>>

PrintDisplay ==
    /\ status = "ready"
    /\ steps <= MaxSteps
    /\ \E io \in IoFaults(term_size) :
         LET r == print_display(controller, terminal, io) IN
         /\ terminal' = r.terminal
         /\ last' = [NoCall EXCEPT !.op = "print_display", !.io = io,
                                   !.result = r.res, !.before = controller]
    /\ steps' = steps + 1
    /\ UNCHANGED <<term_size, req_dimensions, status, controller, appVars>>

\* ------------------------------------------------------ Drawable entities
\* Borders::new(dimensions): a drawable at the local origin whose layout is
\* the outline of the play area, every other cell None
Borders(dimensions) ==
    [location |-> <<0, 0>>,
     layout |-> [r \in 0..(dimensions[2] - 1) |->
                   [c \in 0..(dimensions[1] - 1) |->
                      IF r \in {0, dimensions[2] - 1} \/ c \in {0, dimensions[1] - 1}
                      THEN BORDER_ELEMENT ELSE NoElem]]]

\* draw_drawable: every Some cell of the layout, row by row, goes through
\* draw_item at location + the cell's place in the layout; None cells are
\* skipped; the first error ends the call
RECURSIVE draw_drawable_from(_, _, _)
draw_drawable_from(self, drawable, i) ==
    LET cells == RowMajor(drawable.layout)
        columns == Cardinality(DOMAIN drawable.layout[0])
    IN IF i > Len(cells) THEN [res |-> "Ok", self |-> self]
       ELSE IF cells[i] = NoElem THEN draw_drawable_from(self, drawable, i + 1)
       ELSE LET r == draw_item(self, cells[i],
                               PointAdd(drawable.location,
                                        <<(i - 1) % columns, (i - 1) \div columns>>))
            IN IF r.res # "Ok" THEN r ELSE draw_drawable_from(r.self, drawable, i + 1)

\* the layout cell of the drawable that lands on Map cell [row][col] of self,
\* NoElem when no Some cell of the layout lands there
LayoutCellAt(self, drawable, row, col) ==
    LET i == row - self.offset[2] - drawable.location[2]
        j == col - self.offset[1] - drawable.location[1]
    IN IF i \in DOMAIN drawable.layout /\ j \in DOMAIN drawable.layout[i]
       THEN drawable.layout[i][j] ELSE NoElem

\* Mutation of draw_drawable: the None cells of the layout blank the Map.
draw_drawable_blanking(self, drawable) ==
    LET r == draw_drawable_from(self, drawable, 1) IN
    IF r.res # "Ok" THEN r
    ELSE [res |-> "Ok",
          self |-> [r.self EXCEPT !.display =
              [row \in DOMAIN self.display |->
                 [col \in DOMAIN self.display[row] |->
                    LET i == row - self.offset[2] - drawable.location[2]
                        j == col - self.offset[1] - drawable.location[1]
                    IN IF i \in DOMAIN drawable.layout /\ j \in DOMAIN drawable.layout[i]
                       THEN drawable.layout[i][j]
                       ELSE self.display[row][col]]]]]

draw_drawable(self, drawable) == draw_drawable_from(self, drawable, 1)

\* a sprite with None cells: Some on the diagonal of a 2 x 2 layout
Sprite(location) ==
    [location |-> location,
     layout |-> [r \in 0..1 |-> [c \in 0..1 |-> IF r = c THEN "o" ELSE NoElem]]]

\* drawables offered to draw_drawable
Drawables == {Borders(req_dimensions)} \cup {Sprite(l) : l \in RectStarts}

DrawDrawable ==
    /\ status = "ready"
    /\ steps < MaxSteps
    /\ \E drawable \in Drawables :
         LET r == draw_drawable(controller, drawable) IN
         /\ controller' = r.self
         /\ last' = [NoCall EXCEPT !.op = "draw_drawable", !.drawable = drawable,
                                   !.result = r.res, !.before = controller]
    /\ steps' = steps + 1
    /\ UNCHANGED <<term_size, req_dimensions, status, terminal, appVars>>

\* --------------------------------------------------------------- Player
WIDTH_MAX_VELOCITY == 2
HEIGHT_MAX_VELOCITY == 1

\* Point::add_width / Point::add_height
add_width(point, value) == <<point[1] + value, point[2]>>
add_height(point, value) == <<point[1], point[2] + value>>

\* Player::new with a SPACE_SHIP layout of the given dimensions: location
\* (5, 5), no velocity, no bullets
PlayerNew(ship) ==
    [drawable |-> [layout |-> ship, location |-> <<5, 5>>, velocity |-> <<0, 0>>,
                   kind |-> "Player"],
     bullets |-> <<>>]

\* Bullet::new(location): a 1 x 1 layout at the location
BulletNew(location) ==
    [drawable |-> [layout |-> <<1, 1>>, location |-> location, velocity |-> <<0, 0>>,
                   kind |-> "Enemy"]]

\* Mutation of spawn: the new entity is put in front.
spawn_front(pool, item) == <<item>> \o pool

\* Spawnable::spawn: the entity is appended
spawn(pool, item) == Append(pool, item)

\* Spawnable::items: the entities, oldest first
items(pool) == pool

\* Mutation of up: only the height axis of the velocity is assigned.
up_keeps_width(self) ==
    [self EXCEPT !.drawable.velocity = <<self.drawable.velocity[1], -HEIGHT_MAX_VELOCITY>>]

up(self) == [self EXCEPT !.drawable.velocity = <<0, -HEIGHT_MAX_VELOCITY>>]

down(self) == [self EXCEPT !.drawable.velocity = <<0, HEIGHT_MAX_VELOCITY>>]

\* Mutation of left: only the width axis of the velocity is assigned.
left_keeps_height(self) ==
    [self EXCEPT !.drawable.velocity = <<-WIDTH_MAX_VELOCITY, self.drawable.velocity[2]>>]

left(self) == [self EXCEPT !.drawable.velocity = <<-WIDTH_MAX_VELOCITY, 0>>]

right(self) == [self EXCEPT !.drawable.velocity = <<WIDTH_MAX_VELOCITY, 0>>]

\* Mutation of additional_event_logic: the velocity is cleared on every event.
additional_event_logic_clears_velocity(self, event) ==
    LET stopped == [self EXCEPT !.drawable.velocity = <<0, 0>>] IN
    IF event = "Enter"
    THEN LET spawn_position ==
                 add_height(add_width(self.drawable.location,
                                      (self.drawable.layout[1] \div 2) - 1), 1)
         IN [stopped EXCEPT !.bullets = spawn(self.bullets, BulletNew(spawn_position))]
    ELSE stopped

additional_event_logic(self, event) ==
    IF event = "Enter"
    THEN LET spawn_position ==
                 add_height(add_width(self.drawable.location,
                                      (self.drawable.layout[1] \div 2) - 1), 1)
         IN [self EXCEPT !.bullets = spawn(self.bullets, BulletNew(spawn_position))]
    ELSE self

\* the frame tick: location += velocity
tick(self) ==
    [self EXCEPT !.drawable.location = <<self.drawable.location[1] + self.drawable.velocity[1],
                                         self.drawable.location[2] + self.drawable.velocity[2]>>]

\* dimensions of the SPACE_SHIP layout
ShipLayouts == {<<width, 1>> : width \in 2..MaxShipWidth}

InitPlayer ==
    /\ term_size = <<MaxTerm, MaxTerm>>
    /\ req_dimensions = <<MaxDim, MaxDim>>
    /\ status = "unconstructed"
    /\ controller = NoController
    /\ terminal = [raw |-> FALSE, alternate |-> FALSE, cursor_hidden |-> FALSE,
                   frame |-> <<>>]
    /\ last = NoCall
    /\ steps = 0
    /\ game_state = NoGameState
    /\ pc = "idle"
    /\ run_result = "none"
    /\ loop_outcome = "none"
    /\ iter = 0
    /\ frame_log = <<>>
    /\ polled_event = "None"
    /\ seen_event = "None"
    /\ close_calls = 0
    /\ player \in {PlayerNew(ship) : ship \in ShipLayouts}
    /\ pcall = NoPlayerCall

notPlayerVars == <<term_size, req_dimensions, status, controller, terminal, last, steps,
                   game_state, pc, run_result, loop_outcome, iter, frame_log, loopVars>>

\* the record of a call on the Player; an additional_event_logic call with
\* the fire event is entered as "fire", with any other event as "event"
Called(op, event, bullet) ==
    [history |-> Append(pcall.history, op), event |-> event, before |-> player,
     spawned |-> pcall.spawned \o bullet]

Up ==
    /\ Len(pcall.history) < MaxInputs
    /\ player' = up(player)
    /\ pcall' = Called("up", "None", <<>>)
    /\ UNCHANGED notPlayerVars

Down ==
    /\ Len(pcall.history) < MaxInputs
    /\ player' = down(player)
    /\ pcall' = Called("down", "None", <<>>)
    /\ UNCHANGED notPlayerVars

Left ==
    /\ Len(pcall.history) < MaxInputs
    /\ player' = left(player)
    /\ pcall' = Called("left", "None", <<>>)
    /\ UNCHANGED notPlayerVars

Right ==
    /\ Len(pcall.history) < MaxInputs
    /\ player' = right(player)
    /\ pcall' = Called("right", "None", <<>>)
    /\ UNCHANGED notPlayerVars

AdditionalEventLogic ==
    /\ Len(pcall.history) < MaxInputs
    /\ \E event \in KeyEvents :
         /\ player' = additional_event_logic(player, event)
         /\ pcall' = Called(IF event = "Enter" THEN "fire" ELSE "event", event,
                            IF event = "Enter"
                            THEN <<BulletNew(<<player.drawable.location[1]
                                                 + (player.drawable.layout[1] \div 2) - 1,
                                               player.drawable.location[2] + 1>>)>>
                            ELSE <<>>)
    /\ UNCHANGED notPlayerVars

Tick ==
    /\ Len(pcall.history) < MaxInputs
    /\ player' = tick(player)
    /\ pcall' = Called("tick", "None", <<>>)
    /\ UNCHANGED notPlayerVars

NextPlayer ==
    \/ Up
    \/ Down
    \/ Left
    \/ Right
    \/ AdditionalEventLogic
    \/ Tick

SpecPlayer == InitPlayer /\ [][NextPlayer]_vars

\* ------------------------------------------------------------- App::new
\* App::new(dimensions) on a terminal in state term.  raw_fault: enable_raw_mode
\* fails; overflow_checks and io as in new; borders_fault: Borders::new returns
\* an error.  [res, step, self, terminal, closes]: step is the construction
\* step that ended the call, closes the number of calls of close.
\* app_new_after is App::new from the result of DisplayController::new on.
app_new_after(display_controller, borders_fault) ==
    IF display_controller.res = "panic"
    THEN [res |-> "panic", step |-> "DisplayController::new", self |-> NoController,
          terminal |-> display_controller.terminal, closes |-> 0]
    ELSE IF display_controller.res # "Ok"
    THEN [res |-> display_controller.res, step |-> "DisplayController::new",
          self |-> NoController, terminal |-> close(display_controller.terminal),
          closes |-> 1]
    ELSE IF borders_fault
    THEN [res |-> "BordersError", step |-> "Borders::new", self |-> NoController,
          terminal |-> display_controller.terminal, closes |-> 0]
    ELSE [res |-> "Ok", step |-> "done", self |-> display_controller.self,
          terminal |-> display_controller.terminal, closes |-> 0]

app_new(dimensions, size, term, raw_fault, overflow_checks, io, borders_fault) ==
    IF raw_fault
    THEN [res |-> "TerminalError", step |-> "enable_raw_mode", self |-> NoController,
          terminal |-> term, closes |-> 0]
    ELSE app_new_after(new(dimensions, size, [term EXCEPT !.raw = TRUE],
                           overflow_checks, io),
                       borders_fault)

\* the terminal before App::new: cooked mode, main screen, cursor shown
InitNew ==
    /\ term_size \in TermSizes
    /\ req_dimensions \in Dimensions
    /\ status = "unconstructed"
    /\ controller = NoController
    /\ terminal = [raw |-> FALSE, alternate |-> FALSE, cursor_hidden |-> FALSE,
                   frame |-> <<>>]
    /\ last = NoCall
    /\ steps = 0
    /\ game_state = NoGameState
    /\ pc = "idle"
    /\ run_result = "none"
    /\ loop_outcome = "none"
    /\ iter = 0
    /\ frame_log = <<>>
    /\ polled_event = "None"
    /\ seen_event = "None"
    /\ close_calls = 0
    /\ player = NoPlayer
    /\ pcall = NoPlayerCall

AppNew ==
    /\ status = "unconstructed"
    /\ \E raw_fault \in BOOLEAN, overflow_checks \in BOOLEAN,
          io \in IoFaults(term_size), borders_fault \in BOOLEAN :
         LET r == app_new(req_dimensions, term_size, terminal, raw_fault,
                          overflow_checks, io, borders_fault) IN
         /\ controller' = r.self
         /\ terminal' = r.terminal
         /\ close_calls' = r.closes
         /\ status' = IF r.res = "Ok" THEN "ready" ELSE "failed"
         /\ last' = [NoCall EXCEPT !.op = "app_new", !.dimensions = req_dimensions,
                                   !.io = io, !.result = r.res, !.step = r.step]
    /\ UNCHANGED <<term_size, req_dimensions, steps, game_state, pc, run_result,
                   loop_outcome, iter, frame_log, polled_event, seen_event, entVars>>

NextNew == AppNew

SpecNew == InitNew /\ [][NextNew]_vars

\* ------------------------------------------------------------- App::run
\* The state App::new leaves when it returns Ok: raw mode enabled, the
\* controller constructed, GameState::new() not yet running.
InitApp ==
    /\ term_size \in TermSizes
    /\ req_dimensions \in Dimensions
    /\ LET t0 == [raw |-> TRUE, alternate |-> FALSE, cursor_hidden |-> FALSE,
                  frame |-> <<>>]
           r == new(req_dimensions, term_size, t0, FALSE, NoFault)
       IN /\ r.res = "Ok"
          /\ controller = r.self
          /\ terminal = r.terminal
    /\ status = "ready"
    /\ last = NoCall
    /\ steps = 0
    /\ game_state = NoGameState
    /\ pc = "idle"
    /\ run_result = "none"
    /\ loop_outcome = "none"
    /\ iter = 0
    /\ frame_log = <<>>
    /\ polled_event = "None"
    /\ seen_event = "None"
    /\ close_calls = 0
    /\ player = NoPlayer
    /\ pcall = NoPlayerCall

ctlVars == <<term_size, req_dimensions, status, last, steps, entVars>>

\* run(): game_state.start_game(), then the loop under catch_unwind
RunStart ==
    /\ pc = "idle"
    /\ game_state' = [game_state EXCEPT !.running = TRUE]
    /\ pc' = "loop_top"
    /\ UNCHANGED <<ctlVars, controller, terminal, run_result, loop_outcome, iter,
                   frame_log, loopVars>>

\* while self.game_state.is_running()
LoopTop ==
    /\ pc = "loop_top"
    /\ iter < MaxFrames
    /\ IF game_state.running
       THEN /\ pc' = "reset"
            /\ frame_log' = <<>>
            /\ polled_event' = "None"
            /\ seen_event' = "None"
            /\ UNCHANGED loop_outcome
       ELSE /\ pc' = "shut_down"
            /\ loop_outcome' = "Ok"
            /\ UNCHANGED <<frame_log, polled_event, seen_event>>
    /\ UNCHANGED <<ctlVars, controller, terminal, game_state, run_result, iter,
                   close_calls>>

\* Mutation of ResetStep: keyboard_event is not cleared.
ResetStepKeepsEvent ==
    /\ pc = "reset"
    /\ controller' = reset(controller)
    /\ frame_log' = Append(frame_log, "reset")
    /\ pc' = "poll"
    /\ UNCHANGED <<ctlVars, terminal, game_state, run_result, loop_outcome, iter,
                   loopVars>>

\* self.reset()?
ResetStep ==
    /\ pc = "reset"
    /\ game_state' = [game_state EXCEPT !.keyboard_event = "None"]
    /\ controller' = reset(controller)
    /\ frame_log' = Append(frame_log, "reset")
    /\ pc' = "poll"
    /\ UNCHANGED <<ctlVars, terminal, run_result, loop_outcome, iter, loopVars>>

\* poll(100ms)? fails
PollError ==
    /\ pc = "poll"
    /\ loop_outcome' = "TerminalError"
    /\ frame_log' = Append(frame_log, "poll_error")
    /\ pc' = "shut_down"
    /\ UNCHANGED <<ctlVars, controller, terminal, game_state, run_result, iter,
                   loopVars>>

\* poll(100ms)? is false: no event within the wait
PollTimeout ==
    /\ pc = "poll"
    /\ frame_log' = Append(frame_log, "poll")
    /\ pc' = "frame_action"
    /\ UNCHANGED <<ctlVars, controller, terminal, game_state, run_result,
                   loop_outcome, iter, loopVars>>

\* poll is true and read()? delivers the exit key: close, break
PollExitKey ==
    /\ pc = "poll"
    /\ terminal' = close(terminal)
    /\ close_calls' = close_calls + 1
    /\ polled_event' = "Esc"
    /\ loop_outcome' = "Ok"
    /\ frame_log' = frame_log \o <<"poll", "exit_key", "close">>
    /\ pc' = "shut_down"
    /\ UNCHANGED <<ctlVars, controller, game_state, run_result, iter, seen_event>>

\* poll is true and read()? delivers another event: it is recorded
PollEvent ==
    /\ pc = "poll"
    /\ \E event \in KeyEvents \ {"Esc"} :
         /\ game_state' = [game_state EXCEPT !.keyboard_event = event]
         /\ polled_event' = event
    /\ frame_log' = frame_log \o <<"poll", "record">>
    /\ pc' = "frame_action"
    /\ UNCHANGED <<ctlVars, controller, terminal, run_result, loop_outcome, iter,
                   seen_event, close_calls>>

\* frame_action(&mut game_state, &mut display_controller, ..)?: the caller's
\* closure.  It returns Ok having done nothing, having drawn, or having
\* stopped the game; it returns an error; or it panics.
FrameActionOk ==
    /\ pc = "frame_action"
    /\ \/ UNCHANGED <<controller, game_state>>
       \/ /\ \E element \in UserElements, position \in Positions :
               LET r == draw_item(controller, element, position) IN
               /\ r.res = "Ok"
               /\ controller' = r.self
          /\ UNCHANGED game_state
       \/ /\ game_state' = [game_state EXCEPT !.running = FALSE]
          /\ UNCHANGED controller
    /\ frame_log' = Append(frame_log, "frame_action")
    /\ seen_event' = game_state.keyboard_event
    /\ pc' = "draw_borders"
    /\ UNCHANGED <<ctlVars, terminal, run_result, loop_outcome, iter, polled_event,
                   close_calls>>

FrameActionErr ==
    /\ pc = "frame_action"
    /\ \/ /\ \E element \in UserElements, position \in Positions :
               LET r == draw_item(controller, element, position) IN
               /\ r.res # "Ok"
               /\ controller' = r.self
               /\ loop_outcome' = r.res
       \/ /\ loop_outcome' = "TerminalError"
          /\ UNCHANGED controller
    /\ frame_log' = Append(frame_log, "frame_action")
    /\ seen_event' = game_state.keyboard_event
    /\ pc' = "shut_down"
    /\ UNCHANGED <<ctlVars, terminal, game_state, run_result, iter, polled_event,
                   close_calls>>

FrameActionPanic ==
    /\ pc = "frame_action"
    /\ loop_outcome' = "panic"
    /\ frame_log' = Append(frame_log, "frame_action")
    /\ seen_event' = game_state.keyboard_event
    /\ pc' = "shut_down"
    /\ UNCHANGED <<ctlVars, controller, terminal, game_state, run_result, iter,
                   polled_event, close_calls>>

\* self.display_controller.draw_drawable(&self.borders.drawable)?
DrawBordersStep ==
    /\ pc = "draw_borders"
    /\ LET r == draw_drawable(controller, Borders(req_dimensions)) IN
       /\ controller' = r.self
       /\ IF r.res = "Ok"
          THEN /\ pc' = "print"
               /\ UNCHANGED loop_outcome
          ELSE /\ pc' = "shut_down"
               /\ loop_outcome' = r.res
    /\ frame_log' = Append(frame_log, "draw_borders")
    /\ UNCHANGED <<ctlVars, terminal, game_state, run_result, iter, loopVars>>

\* .print_display()?
PrintStep ==
    /\ pc = "print"
    /\ \E io \in IoFaults(term_size) :
         LET r == print_display(controller, terminal, io) IN
         /\ terminal' = r.terminal
         /\ IF r.res = "Ok"
            THEN /\ pc' = "loop_top"
                 /\ iter' = iter + 1
                 /\ UNCHANGED loop_outcome
            ELSE /\ pc' = "shut_down"
                 /\ loop_outcome' = r.res
                 /\ UNCHANGED iter
    /\ frame_log' = Append(frame_log, "print_display")
    /\ UNCHANGED <<ctlVars, controller, game_state, run_result, loopVars>>

\* what run() hands its caller once catch_unwind has returned `result`:
\* result is not looked at; self.shut_down()? closes the display; Ok(())
run_returns(outcome) == "Ok"

\* after catch_unwind: self.shut_down()?; Ok(())
ShutDown ==
    /\ pc = "shut_down"
    /\ terminal' = close(terminal)
    /\ close_calls' = close_calls + 1
    /\ run_result' = run_returns(loop_outcome)
    /\ pc' = "done"
    /\ UNCHANGED <<ctlVars, controller, game_state, loop_outcome, iter, frame_log,
                   polled_event, seen_event>>

NextApp ==
    \/ RunStart
    \/ LoopTop
    \/ ResetStep
    \/ PollError
    \/ PollTimeout
    \/ PollExitKey
    \/ PollEvent
    \/ FrameActionOk
    \/ FrameActionErr
    \/ FrameActionPanic
    \/ DrawBordersStep
    \/ PrintStep
    \/ ShutDown

SpecApp == InitApp /\ [][NextApp]_vars

Next ==
    \/ New
    \/ DrawItem
    \/ DrawLine
    \/ DrawRect
    \/ DrawDrawable
    \/ Reset
    \/ PrintDisplay

Spec == Init /\ [][Next]_vars

\* =================================================================== claims
\* helpers of the properties below
Rows == DOMAIN controller.display
Columns == IF Rows = {} THEN {} ELSE DOMAIN controller.display[0]
InPlayArea(p, dims) == p[1] < dims[1] /\ p[2] < dims[2]
AllNone(map) == \A r \in DOMAIN map : \A c \in DOMAIN map[r] : map[r][c] = NoElem
SetMin(S) == CHOOSE m \in S : \A n \in S : m <= n
Range(seq) == {seq[i] : i \in DOMAIN seq}
Restored(term) == ~term.raw /\ ~term.alternate /\ ~term.cursor_hidden
\* the buffer cells <<column, row>> of the outline of a rectangle of the
\* given dimensions at the local origin
BorderCells(offset, dims) ==
    {PointAdd(offset, <<x, y>>) : <<x, y>> \in
        {q \in (0..(dims[1] - 1)) \X (0..(dims[2] - 1)) :
            q[1] \in {0, dims[1] - 1} \/ q[2] \in {0, dims[2] - 1}}}

\* C1: on a constructed controller draw_item succeeds for every local
\* position inside the play area and fails with PositionOutOfRange for
\* every position with a coordinate at or beyond the play-area dimension,
\* also where that position would still lie inside the buffer.
C1_DrawItemRangeCheck ==
    status = "ready" =>
        /\ \A position \in Positions, element \in UserElements :
             draw_item(controller, element, position).res =
                 IF InPlayArea(position, controller.dimensions)
                 THEN "Ok" ELSE "PositionOutOfRange"
        /\ last.op = "draw_item" =>
             last.result = IF InPlayArea(last.position, last.before.dimensions)
                           THEN "Ok" ELSE "PositionOutOfRange"

\* C1 witness: draw_item was refused for a position outside the play area
\* whose translated cell exists in the buffer.
C1_Witness ==
    /\ status = "ready"
    /\ last.op = "draw_item"
    /\ last.result = "PositionOutOfRange"
    /\ last.position[1] + controller.offset[1] \in Columns
    /\ last.position[2] + controller.offset[2] \in Rows

\* C2: new returns DisplayTooSmallForDimensions whenever the play area is
\* wider than the terminal's columns or higher than its rows.
C2_TooSmallIsRejected ==
    (last.op = "new" /\ (req_dimensions[1] > term_size[1] \/ req_dimensions[2] > term_size[2]))
        => last.result = "DisplayTooSmallForDimensions"

\* C3: once new has accepted the play area, the offset is
\* ((W - w) / 2, (H - h) / 2) with floor division, and it keeps that value
\* through every later draw_item, draw_line, draw_rect, reset and
\* print_display.
C3_OffsetLaw ==
    status = "ready" =>
        /\ controller.offset = <<(term_size[1] - req_dimensions[1]) \div 2,
                                 (term_size[2] - req_dimensions[2]) \div 2>>
        /\ 2 * controller.offset[1] <= term_size[1] - req_dimensions[1]
        /\ 2 * controller.offset[2] <= term_size[2] - req_dimensions[2]
        /\ last.op \notin {"none", "new"} => controller.offset = last.before.offset

\* C3 witness: a later call has been made on a controller whose offset was
\* rounded down on one axis and is not zero on the other.
C3_Witness ==
    /\ status = "ready"
    /\ last.op \in {"draw_item", "draw_line", "draw_rect", "reset", "print_display"}
    /\ (term_size[1] - req_dimensions[1]) % 2 = 1
    /\ controller.offset[2] > 0

\* C4: a successful draw_item(element, p) stores element in the cell at row
\* offset.y + p.y, column offset.x + p.x, whatever was there, and changes no
\* other cell and nothing else of the controller.
C4_DrawItemWritesOneCell ==
    (status = "ready" /\ last.op = "draw_item" /\ last.result = "Ok") =>
        /\ DOMAIN controller.display = DOMAIN last.before.display
        /\ \A r \in Rows :
             /\ DOMAIN controller.display[r] = DOMAIN last.before.display[r]
             /\ \A c \in Columns :
                  controller.display[r][c] =
                      IF /\ r = last.before.offset[2] + last.position[2]
                         /\ c = last.before.offset[1] + last.position[1]
                      THEN last.element
                      ELSE last.before.display[r][c]
        /\ last.before.offset[2] + last.position[2] \in Rows
        /\ last.before.offset[1] + last.position[1] \in Columns
        /\ [controller EXCEPT !.display = last.before.display] = last.before

\* C4 witness: draw_item overwrote an occupied cell of a controller whose
\* offset is not zero.
C4_Witness ==
    /\ status = "ready"
    /\ last.op = "draw_item"
    /\ last.result = "Ok"
    /\ controller.offset[1] > 0
    /\ controller.offset[2] > 0
    /\ last.before.display[controller.offset[2] + last.position[2]]
                          [controller.offset[1] + last.position[1]] = BorderElement
    /\ controller.display[controller.offset[2] + last.position[2]]
                         [controller.offset[1] + last.position[1]] = last.element

\* C5: draw_rect at the local origin with the dimensions of the play area,
\* on an empty Map, succeeds and occupies exactly the outline of the play
\* area.  It is called so by draw_borders inside new, and it can be called
\* so on the constructed controller after a reset.
C5_RectIsTheBorder ==
    /\ (last.op = "new" /\ last.borders # "not_called") =>
          /\ last.borders = "Ok"
          /\ last.result = "Ok" =>
               \A r \in Rows : \A c \in Columns :
                   (controller.display[r][c] # NoElem)
                       <=> (<<c, r>> \in BorderCells(controller.offset, req_dimensions))
    /\ (/\ last.op = "draw_rect"
        /\ last.position = <<0, 0>>
        /\ last.dimensions = last.before.dimensions
        /\ AllNone(last.before.display)) =>
          /\ last.result = "Ok"
          /\ \A r \in Rows : \A c \in Columns :
                 (controller.display[r][c] # NoElem)
                     <=> (<<c, r>> \in BorderCells(controller.offset, last.dimensions))

\* C6: draw_line writes the cells start, start + 1, ... along its axis in
\* increasing order: when cell number k is the first outside the play area
\* the call returns PositionOutOfRange, the k cells before it hold the
\* element and no other cell of the Map has changed; when no cell is outside
\* it returns Ok with all len cells written.
C6_DrawLineIsPartial ==
    (status = "ready" /\ last.op = "draw_line") =>
        LET cell(i) == IF last.direction = "Horizontal"
                       THEN addX(last.position, i) ELSE addY(last.position, i)
            outside == {i \in 0..(last.len - 1) :
                           ~InPlayArea(cell(i), last.before.dimensions)}
            k == IF outside = {} THEN last.len ELSE SetMin(outside)
            written == {PointAdd(last.before.offset, cell(i)) : i \in 0..(k - 1)}
        IN /\ last.result = IF outside = {} THEN "Ok" ELSE "PositionOutOfRange"
           /\ \A r \in Rows : \A c \in Columns :
                controller.display[r][c] =
                    IF <<c, r>> \in written THEN last.element
                    ELSE last.before.display[r][c]

\* C6 witness: a line failed after it had written at least one cell, and
\* the cell it failed on exists in the buffer.
C6_Witness ==
    /\ status = "ready"
    /\ last.op = "draw_line"
    /\ last.result = "PositionOutOfRange"
    /\ controller.display # last.before.display
    /\ \E i \in 1..(last.len - 1) :
         LET p == PointAdd(controller.offset,
                           IF last.direction = "Horizontal"
                           THEN addX(last.position, i) ELSE addY(last.position, i))
         IN /\ p[1] \in Columns
            /\ p[2] \in Rows
            /\ controller.display[p[2]][p[1]] = NoElem

\* C7: after reset every cell of the Map is None whatever was drawn before,
\* a second reset changes nothing, and a print_display that completes emits
\* one element per buffer cell in row-major order, the default Element for
\* each None cell, so every element of the frame after a reset is the
\* default Element.
C7_ResetThenPrint ==
    status = "ready" =>
        /\ last.op = "reset" =>
             /\ AllNone(controller.display)
             /\ DOMAIN controller.display = DOMAIN last.before.display
             /\ reset(controller) = controller
        /\ (last.op = "print_display" /\ last.result = "Ok") =>
             /\ Len(terminal.frame) = term_size[1] * term_size[2]
             /\ \A r \in Rows : \A c \in Columns :
                  terminal.frame[r * term_size[1] + c + 1] =
                      IF controller.display[r][c] = NoElem
                      THEN DefaultElement ELSE controller.display[r][c]
             /\ AllNone(controller.display) =>
                  \A i \in 1..Len(terminal.frame) : terminal.frame[i] = DefaultElement

\* C7 witness: print_display completed on a Map that a reset had cleared of
\* the border, on a terminal of more than one row and column.
C7_Witness ==
    /\ status = "ready"
    /\ last.op = "print_display"
    /\ last.result = "Ok"
    /\ AllNone(controller.display)
    /\ term_size[1] > 1
    /\ term_size[2] > 1
    /\ Len(terminal.frame) = term_size[1] * term_size[2]
    /\ \A i \in 1..Len(terminal.frame) : terminal.frame[i] = DefaultElement

\* C8: the game loop is a Running/Stopped machine: on the exit key the
\* display is closed and the closure is not invoked in that iteration, the
\* state is Stopped (running is false) when run() returns, and the loop does
\* not end normally while the state is Running.
C8_ExitKeyStopsTheGame ==
    /\ (pc = "done" /\ "exit_key" \in Range(frame_log)) =>
          /\ Restored(terminal)
          /\ "frame_action" \notin Range(frame_log)
          /\ ~game_state.running
    /\ (pc \in {"shut_down", "done"} /\ loop_outcome = "Ok") => ~game_state.running

\* C9: when the closure panics inside the loop, close runs before run() is
\* left and the panic is then propagated to the caller: run() does not
\* return Ok.
C9_PanicIsPropagated ==
    (pc = "done" /\ loop_outcome = "panic") =>
        /\ Restored(terminal)
        /\ run_result = "panic"

\* C10: when a step of an iteration returns an error, no further iteration
\* runs, close restores the terminal and run() returns that error.
C10_ErrorIsReturned ==
    (pc = "done" /\ loop_outcome \notin {"none", "Ok", "panic"}) =>
        /\ Restored(terminal)
        /\ run_result = loop_outcome

\* C19: for every controller new has returned, the play area fits the
\* terminal (w <= W and h <= H), every local position of the play area
\* translates to an existing Map cell, no draw_item, draw_line or draw_rect
\* call indexes outside the Map (none panics, none is refused by the row
\* lookup), and every occupied Map cell lies inside the play-area rectangle
\* [offset.x, offset.x + w) x [offset.y, offset.y + h).
C19_DrawingStaysInsideTheMap ==
    status = "ready" =>
        /\ controller.dimensions[1] <= term_size[1]
        /\ controller.dimensions[2] <= term_size[2]
        /\ Rows = 0..(term_size[2] - 1)
        /\ Columns = 0..(term_size[1] - 1)
        /\ \A x \in 0..(controller.dimensions[1] - 1), y \in 0..(controller.dimensions[2] - 1) :
             /\ controller.offset[2] + y \in Rows
             /\ controller.offset[1] + x \in Columns
        /\ last.result # "panic"
        /\ \A position \in Positions, element \in UserElements :
             draw_item_unchecked(controller, element, position).res = "Ok"
                 \/ ~InPlayArea(position, controller.dimensions)
        /\ \A r \in Rows : \A c \in Columns :
             controller.display[r][c] # NoElem =>
                 /\ controller.offset[1] <= c
                 /\ c < controller.offset[1] + controller.dimensions[1]
                 /\ controller.offset[2] <= r
                 /\ r < controller.offset[2] + controller.dimensions[2]

\* C19 witness: a drawing call was refused on a controller whose Map is
\* larger than its play area on both axes, and the cells around the play
\* area are still empty.
C19_Witness ==
    /\ status = "ready"
    /\ last.op \in {"draw_item", "draw_line", "draw_rect"}
    /\ last.result = "PositionOutOfRange"
    /\ controller.dimensions[1] < term_size[1]
    /\ controller.dimensions[2] < term_size[2]
    /\ controller.display[0][0] = NoElem
    /\ \E r \in Rows : \E c \in Columns : controller.display[r][c] # NoElem

\* C20: a draw_item call that returns PositionOutOfRange leaves the
\* controller, its Map included, as it was before the call; the caller gets
\* the error from that one call.
C20_RefusedDrawItemWritesNothing ==
    /\ (last.op = "draw_item" /\ last.result = "PositionOutOfRange") =>
          /\ controller = last.before
          /\ controller.display = last.before.display
    /\ status = "ready" =>
          \A position \in Positions, element \in UserElements :
              LET r == draw_item(controller, element, position) IN
              r.res = "PositionOutOfRange" => r.self = controller

\* C20 witness: draw_item was refused on a controller whose Map holds the
\* border, and the Map still holds it.
C20_Witness ==
    /\ status = "ready"
    /\ last.op = "draw_item"
    /\ last.result = "PositionOutOfRange"
    /\ ~AllNone(controller.display)
    /\ controller.display = last.before.display
    /\ steps = 1

\* C16: draw_drawable changes only Map cells on which a Some cell of the
\* layout lands (location plus the cell's place in the layout, translated by
\* the offset), and gives such a cell that layout element; when the call
\* returns Ok every Some cell of the layout has been written, and a Map cell
\* under a None cell of the layout keeps what an earlier drawing put there.
C16_DrawDrawableSkipsNone ==
    last.op = "draw_drawable" =>
        \A r \in Rows : \A c \in Columns :
            LET cell == LayoutCellAt(last.before, last.drawable, r, c) IN
            /\ controller.display[r][c] \in {last.before.display[r][c], cell}
            /\ cell = NoElem => controller.display[r][c] = last.before.display[r][c]
            /\ (last.result = "Ok" /\ cell # NoElem) => controller.display[r][c] = cell

\* C16 witness: a sprite was drawn over the border; one of its None cells
\* lies on a border cell, which is still there, and one of its Some cells
\* replaced a border cell.
C16_Witness ==
    /\ last.op = "draw_drawable"
    /\ last.result = "Ok"
    /\ \E i \in DOMAIN last.drawable.layout : \E j \in DOMAIN last.drawable.layout[i] :
         LET r == last.before.offset[2] + last.drawable.location[2] + i
             c == last.before.offset[1] + last.drawable.location[1] + j
         IN /\ last.drawable.layout[i][j] = NoElem
            /\ r \in Rows /\ c \in Columns
            /\ last.before.display[r][c] = BorderElement
            /\ controller.display[r][c] = BorderElement
    /\ \E r \in Rows : \E c \in Columns :
         /\ controller.display[r][c] = "o"
         /\ last.before.display[r][c] = BorderElement

\* C17: an iteration of the loop of run() that reaches print_display has
\* taken its steps once each and in this order: reset (keyboard_event
\* cleared, Map reset), poll, record of a polled non-exit event, the
\* per-frame closure, the borders, print_display; and the keyboard_event
\* the closure finds is the event polled in that iteration, None when the
\* poll timed out.
C17_IterationOrder ==
    /\ (frame_log # <<>> /\ frame_log[Len(frame_log)] = "print_display") =>
          frame_log = IF polled_event = "None"
                      THEN <<"reset", "poll", "frame_action", "draw_borders",
                             "print_display">>
                      ELSE <<"reset", "poll", "record", "frame_action", "draw_borders",
                             "print_display">>
    /\ "frame_action" \in Range(frame_log) =>
          /\ seen_event = polled_event
          /\ seen_event # "Esc"
    /\ pc = "poll" => (game_state.keyboard_event = "None" /\ AllNone(controller.display))
    /\ pc = "frame_action" => game_state.keyboard_event = polled_event

\* C17 witness: the second iteration has completed, its poll delivered
\* Enter, and the closure found Enter.
C17_Witness ==
    /\ pc = "loop_top"
    /\ iter = 2
    /\ frame_log = <<"reset", "poll", "record", "frame_action", "draw_borders",
                     "print_display">>
    /\ polled_event = "Enter"
    /\ seen_event = "Enter"

\* C18: close is idempotent, and when run() has returned close has been
\* called at least once (twice on the exit-key path), the terminal is
\* restored (raw mode off, alternate screen left, cursor shown) and one more
\* close would leave it as it is.
C18_CloseOnEveryExit ==
    /\ close(close(terminal)) = close(terminal)
    /\ Restored(close(terminal))
    /\ pc = "done" =>
          /\ close_calls >= 1
          /\ polled_event = "Esc" => close_calls = 2
          /\ Restored(terminal)
          /\ close(terminal) = terminal

\* C18 witness: run() has returned on the exit-key path after two calls of
\* close, with the terminal restored.
C18_Witness ==
    /\ pc = "done"
    /\ polled_event = "Esc"
    /\ close_calls = 2
    /\ Restored(terminal)

\* C11: whenever App::new has returned an error, at whichever construction
\* step, close has been called before the return and the terminal is in
\* neither raw mode nor alternate-screen mode; when the error is
\* DisplayTooSmallForDimensions the alternate screen was never entered.
C11_FailedConstructionTearsDown ==
    (last.op = "app_new" /\ last.result \notin {"Ok", "panic"}) =>
        /\ close_calls >= 1
        /\ ~terminal.raw
        /\ ~terminal.alternate
        /\ last.result = "DisplayTooSmallForDimensions" => terminal.frame = <<>>

\* helpers of the Player properties
DirectionOps == {"up", "down", "left", "right"}
LastDirection(history) ==
    LET I == {i \in DOMAIN history : history[i] \in DirectionOps} IN
    IF I = {} THEN "none" ELSE history[CHOOSE i \in I : \A j \in I : j <= i]
LastOp(history) == IF history = <<>> THEN "none" ELSE history[Len(history)]
Count(history, op) == Cardinality({i \in DOMAIN history : history[i] = op})

\* C12 as stated: after any sequence of direction inputs the velocity is the
\* unit vector of the last direction: up (0,-1), down (0,1), left (-1,0),
\* right (1,0).
C12_VelocityIsUnitVector ==
    LET d == LastDirection(pcall.history) IN
    d # "none" =>
        player.drawable.velocity = CASE d = "up" -> <<0, -1>>
                                     [] d = "down" -> <<0, 1>>
                                     [] d = "left" -> <<-1, 0>>
                                     [] d = "right" -> <<1, 0>>

\* C12 amended: after any sequence of direction inputs the velocity is the
\* fixed vector of the last direction only, with exactly one axis non-zero:
\* up (0,-1) and down (0,1) of magnitude 1, left (-2,0) and right (2,0) of
\* magnitude 2; earlier directions contribute nothing.
C12_LastDirectionWins ==
    LET d == LastDirection(pcall.history) IN
    d # "none" =>
        /\ player.drawable.velocity = CASE d = "up" -> <<0, -1>>
                                        [] d = "down" -> <<0, 1>>
                                        [] d = "left" -> <<-2, 0>>
                                        [] d = "right" -> <<2, 0>>
        /\ (player.drawable.velocity[1] = 0) # (player.drawable.velocity[2] = 0)

\* C12 witness: left was processed after up, and the velocity is (-2, 0).
C12_Witness ==
    /\ Len(pcall.history) >= 2
    /\ pcall.history[Len(pcall.history)] = "left"
    /\ pcall.history[Len(pcall.history) - 1] = "up"
    /\ pcall.before.drawable.velocity = <<0, -1>>
    /\ player.drawable.velocity = <<-2, 0>>

\* C13: after up followed by one frame tick the height of the location is
\* 1 less than before the up and the width is the same, whatever the
\* velocity was before the up.
C13_UpThenTick ==
    (/\ Len(pcall.history) >= 2
     /\ pcall.history[Len(pcall.history)] = "tick"
     /\ pcall.history[Len(pcall.history) - 1] = "up") =>
        /\ player.drawable.location[2] = pcall.before.drawable.location[2] - 1
        /\ player.drawable.location[1] = pcall.before.drawable.location[1]
        /\ pcall.before.drawable.velocity = <<0, -1>>

\* C13 witness: left, up, tick: the velocity before the up was (-2, 0), and
\* the tick moved the Player from (5, 5) to (5, 4).
C13_Witness ==
    /\ pcall.history = <<"left", "up", "tick">>
    /\ pcall.before.drawable.location = <<5, 5>>
    /\ player.drawable.location = <<5, 4>>

\* C14: additional_event_logic with the fire event (Enter) appends exactly
\* one bullet, last, at the Player's location + (layout.width / 2 - 1, 1),
\* and leaves location and velocity of the Player as they were; with any
\* other event the bullets are unchanged.
C14_FireSpawnsOneBullet ==
    LastOp(pcall.history) \in {"event", "fire"} =>
        /\ player.drawable = pcall.before.drawable
        /\ IF pcall.event = "Enter"
           THEN /\ Len(player.bullets) = Len(pcall.before.bullets) + 1
                /\ SubSeq(player.bullets, 1, Len(pcall.before.bullets))
                       = pcall.before.bullets
                /\ player.bullets[Len(player.bullets)].drawable.location =
                       <<player.drawable.location[1]
                           + (player.drawable.layout[1] \div 2) - 1,
                         player.drawable.location[2] + 1>>
           ELSE player.bullets = pcall.before.bullets

\* C14 witness: a moving Player with a layout of odd width that already
\* has a bullet fired a second one.
C14_Witness ==
    /\ LastOp(pcall.history) = "fire"
    /\ pcall.event = "Enter"
    /\ player.drawable.layout[1] = 3
    /\ player.drawable.velocity # <<0, 0>>
    /\ player.drawable.location # <<5, 5>>
    /\ Len(player.bullets) = 2
    /\ player.bullets[2].drawable.location =
           <<player.drawable.location[1], player.drawable.location[2] + 1>>

\* C15: items() of the bullets pool yields exactly the entities handed to
\* spawn, in the order of the spawn calls, and as many as there were spawn
\* calls: nothing is removed or reordered.
C15_SpawnKeepsInsertionOrder ==
    /\ items(player.bullets) = pcall.spawned
    /\ Len(items(player.bullets)) = Count(pcall.history, "fire")
    /\ \A pool \in {<<>>, <<"B1">>} : items(spawn(spawn(pool, "B1"), "B2"))
           = pool \o <<"B1", "B2">>

\* C15 witness: two different bullets were spawned, and items() yields the
\* older one first.
C15_Witness ==
    /\ Len(pcall.spawned) = 2
    /\ pcall.spawned[1] # pcall.spawned[2]
    /\ items(player.bullets) = <<pcall.spawned[1], pcall.spawned[2]>>

====
